---- MODULE Spec2Model ----
(***************************************************************************)
(* Model of labelprinterkit/printers/brother_pt700.py: the status decoder  *)
(* (Errors, Status), the raster line encoder (encode_line) and the print   *)
(* session controller (P700.reset, get_status, _debug_status, print_label, *)
(* _raw_print) talking to a byte transport (backend.write / backend.read). *)
(*                                                                         *)
(* Conventions: a bytes object is a sequence of integers 0..255; Python's  *)
(* None is the value None (-1, never a legal margin); the float width of a *)
(* tape is kept in tenths of a millimetre (24.0 mm is 240).                *)
(***************************************************************************)
EXTENDS Integers, Sequences, FiniteSets, TLC

VARIABLES pc, api, fn, log, data, status, count, document, i, li, err, args, ret

vars == <<pc, api, fn, log, data, status, count, document, i, li, err, args, ret>>

\* ------------------------------------------------------------------ bounds
MaxCount == 2
MaxLines == 2
MaxLineBytes == 17
MaxCodecLen == 130

\* ------------------------------------------------------- helpers on bytes
Byte == 0..255

None == 0 - 1

RECURSIVE Pow2(_)
Pow2(n) == IF n = 0 THEN 1 ELSE 2 * Pow2(n - 1)

\* bool(value & 1 << offset)
BitSet(value, offset) == (value \div Pow2(offset)) % 2 = 1

\* a | b on non-negative integers
RECURSIVE BitOr(_, _)
BitOr(a, b) ==
    IF a = 0 THEN b
    ELSE IF b = 0 THEN a
    ELSE (IF (a % 2 = 1) \/ (b % 2 = 1) THEN 1 ELSE 0)
         + 2 * BitOr(a \div 2, b \div 2)

Repeat(x, n) == [k \in 1..n |-> x]

\* ---------------------------------------------------------- static tables
INFO_OFFSETS_shifted ==
    [ printhead_mark |-> 0, model_code |-> 4, error_1 |-> 8, error_2 |-> 9,
      media_width |-> 10, media_type |-> 11, mode |-> 15, media_length |-> 16,
      status_type |-> 18, phase_type |-> 19, phase_number_hi |-> 20,
      phase_number_lo |-> 21, notify_no |-> 22, hardware_settings |-> 26 ]

INFO_OFFSETS ==
    [ printhead_mark |-> 0, model_code |-> 4, error_1 |-> 8, error_2 |-> 9,
      media_width |-> 10, media_type |-> 11, mode |-> 15, media_length |-> 17,
      status_type |-> 18, phase_type |-> 19, phase_number_hi |-> 20,
      phase_number_lo |-> 21, notify_no |-> 22, hardware_settings |-> 26 ]

TapeInfo(l, p, r, w) == [lmargin |-> l, printarea |-> p, rmargin |-> r, width |-> w]

MEDIA_WIDTH_INFO ==
    (0 :> TapeInfo(None, None, None, None)) @@
    (4 :> TapeInfo(52, 24, 52, 35)) @@
    (6 :> TapeInfo(48, 32, 48, 60)) @@
    (9 :> TapeInfo(39, 50, 39, 90)) @@
    (12 :> TapeInfo(29, 70, 29, 120)) @@
    (18 :> TapeInfo(8, 112, 8, 180)) @@
    (24 :> TapeInfo(0, 128, 0, 240))

ERROR_MASK_swapped ==
    (0 :> "no_media") @@ (1 :> "cutter_jam") @@ (3 :> "weak_battery") @@
    (6 :> "hv_adapter") @@ (8 :> "replace_media") @@ (12 :> "cover_open") @@
    (13 :> "overheating")

ERROR_MASK ==
    (0 :> "no_media") @@ (2 :> "cutter_jam") @@ (3 :> "weak_battery") @@
    (6 :> "hv_adapter") @@ (8 :> "replace_media") @@ (12 :> "cover_open") @@
    (13 :> "overheating")

\* ------------------------------------------------------------------ Errors
\* Errors.__init__: the data dict, keyed by the lower-cased error name
Errors(byte1, byte2) ==
    LET value == BitOr(byte1, byte2 * 256)
    IN  [ name \in {ERROR_MASK[o] : o \in DOMAIN ERROR_MASK} |->
            \E o \in DOMAIN ERROR_MASK : ERROR_MASK[o] = name /\ BitSet(value, o) ]

\* Errors.any
Errors_any(errors) == \E name \in DOMAIN errors : errors[name]

\* ------------------------------------------------------------------ Status
\* The exception Status.__init__ raises on msg, "none" when it returns.
Status_raises(msg) ==
    IF \E f \in DOMAIN INFO_OFFSETS : INFO_OFFSETS[f] >= Len(msg)
    THEN "IndexError"
    ELSE IF msg[INFO_OFFSETS.media_width + 1] \notin DOMAIN MEDIA_WIDTH_INFO
    THEN "KeyError"
    ELSE "none"

\* The object Status.__init__ builds when it does not raise.
Status(msg) ==
    LET d == [f \in DOMAIN INFO_OFFSETS |-> msg[INFO_OFFSETS[f] + 1]]
    IN  [ data |-> d,
          errors |-> Errors(d.error_1, d.error_2),
          tape_info |-> MEDIA_WIDTH_INFO[d.media_width] ]

Status_ready_always(st) == TRUE

\* Status.ready
Status_ready(st) == ~ Errors_any(st.errors)

\* ------------------------------------------------------------- encode_line
\* An int is kept as its sequence of bits, most significant first (leading
\* zero bits allowed), because a raster line is a 128-bit number.
ByteBits(b) == [k \in 1..8 |-> (b \div Pow2(8 - k)) % 2]

\* int.from_bytes(bitmap_line, byteorder='big')
IntFromBytes(bytes) ==
    [k \in 1..(8 * Len(bytes)) |-> ByteBits(bytes[((k - 1) \div 8) + 1])[((k - 1) % 8) + 1]]

ShiftLeft_bytes(bits, n) == bits \o Repeat(0, 8 * (n \div 8))

\* line_int <<= n
ShiftLeft(bits, n) == bits \o Repeat(0, n)

\* int.bit_length()
BitLength(bits) ==
    LET ones == {k \in 1..Len(bits) : bits[k] = 1}
    IN  IF ones = {} THEN 0
        ELSE Len(bits) + 1 - (CHOOSE k \in ones : \A j \in ones : k <= j)

\* line_int.to_bytes(nbytes, byteorder='big'), defined when the value fits
IntToBytes(bits, nbytes) ==
    LET w == 8 * nbytes
        n == Len(bits)
        bit(k) == IF k + n - w >= 1 THEN bits[k + n - w] ELSE 0
    IN  [b \in 1..nbytes |->
            bit(8*b - 7) * 128 + bit(8*b - 6) * 64 + bit(8*b - 5) * 32 +
            bit(8*b - 4) * 16 + bit(8*b - 3) * 8 + bit(8*b - 2) * 4 +
            bit(8*b - 1) * 2 + bit(8*b)]

PADDED_BYTES == 16

\* packbits.encode (the PackBits run-length coder of the packbits package)
PB_MAX_LENGTH == 127

PB_finish_raw(result, buf) ==
    IF buf = <<>> THEN result ELSE result \o <<Len(buf) - 1>> \o buf

PB_finish_rle_short(result, repeat_count, byte) ==
    result \o <<256 - repeat_count, byte>>

PB_finish_rle(result, repeat_count, byte) ==
    result \o <<256 - (repeat_count - 1), byte>>

\* one pass of the while loop of packbits.encode at position pos; st holds
\* the loop variables state, repeat_count, buf and result
PB_step(d, st, pos) ==
    IF d[pos] = d[pos + 1]
    THEN IF st.state = "RAW"
         THEN [state |-> "RLE", repeat_count |-> 1, buf |-> <<>>,
               result |-> PB_finish_raw(st.result, st.buf)]
         ELSE IF st.repeat_count = PB_MAX_LENGTH
              THEN [st EXCEPT !.repeat_count = 1,
                              !.result = PB_finish_rle(st.result, st.repeat_count, d[pos])]
              ELSE [st EXCEPT !.repeat_count = st.repeat_count + 1]
    ELSE IF st.state = "RLE"
         THEN [st EXCEPT !.state = "RAW", !.repeat_count = 0,
                         !.result = PB_finish_rle(st.result, st.repeat_count + 1, d[pos])]
         ELSE IF Len(st.buf) = PB_MAX_LENGTH
              THEN [st EXCEPT !.buf = <<d[pos]>>,
                              !.result = PB_finish_raw(st.result, st.buf)]
              ELSE [st EXCEPT !.buf = Append(st.buf, d[pos])]

\* the passes for pos = lo..hi, in order
RECURSIVE PB_loop(_, _, _, _)
PB_loop(d, st, lo, hi) ==
    IF lo > hi THEN st
    ELSE IF lo = hi THEN PB_step(d, st, lo)
    ELSE LET mid == (lo + hi) \div 2
         IN  PB_loop(d, PB_loop(d, st, lo, mid), mid + 1, hi)

\* after the loop: the last byte closes the pending run
PB_finish(d, st) ==
    IF st.state = "RAW"
    THEN PB_finish_raw(st.result, Append(st.buf, d[Len(d)]))
    ELSE PB_finish_rle(st.result, st.repeat_count + 1, d[Len(d)])

packbits_encode(d) ==
    IF Len(d) = 0 THEN d
    ELSE IF Len(d) = 1 THEN <<0>> \o d
    ELSE PB_finish(d, PB_loop(d, [state |-> "RAW", repeat_count |-> 0,
                                  buf |-> <<>>, result |-> <<>>], 1, Len(d) - 1))

\* one pass of the while loop of packbits.decode: the header at pos and its
\* run; gives the next pos and the grown result
PB_decode_step(d, pos, result) ==
    LET header_byte == IF d[pos] > 127 THEN d[pos] - 256 ELSE d[pos]
    IN  IF header_byte >= 0
        THEN [pos |-> pos + header_byte + 2,
              result |-> result \o SubSeq(d, pos + 1, pos + header_byte + 1)]
        ELSE IF header_byte = 0 - 128
        THEN [pos |-> pos + 1, result |-> result]
        ELSE [pos |-> pos + 2, result |-> result \o Repeat(d[pos + 1], 1 - header_byte)]

\* struct.pack("<H", n)
PackLE16(n) == <<n % 256, (n \div 256) % 256>>

\* The exception encode_line raises, "none" when it returns.
encode_line_raises(bitmap_line, tape_info) ==
    IF tape_info.rmargin = None
    THEN "TypeError"
    ELSE IF BitLength(ShiftLeft(IntFromBytes(bitmap_line), tape_info.rmargin))
              > 8 * PADDED_BYTES
    THEN "OverflowError"
    ELSE "none"

\* The 16 byte buffer encode_line compresses
encode_line_padded(bitmap_line, tape_info) ==
    IntToBytes(ShiftLeft(IntFromBytes(bitmap_line), tape_info.rmargin), PADDED_BYTES)

\* The chunk encode_line returns when it does not raise.
encode_line(bitmap_line, tape_info) ==
    LET compressed == packbits_encode(encode_line_padded(bitmap_line, tape_info))
    IN  PackLE16(Len(compressed)) \o compressed

\* ------------------------------------------------------ wire byte sequences
INVALIDATE_short == Repeat(0, 10)
INVALIDATE == Repeat(0, 100)
INITIALIZE == <<27, 64>>
STATUS_REQUEST == <<27, 105, 83>>
DYNAMIC_MODE == <<27, 105, 97, 1>>
PRINT_INFO == <<27, 105, 122, 134, 1, 12, 0, 0, 0, 0, 0, 0>>
VARIOUS_MODE == <<27, 105, 77, 64>>
CUT_EVERY == <<27, 105, 65, 1>>
ADVANCED_MODE_off == <<27, 105, 75, 0>>
ADVANCED_MODE == <<27, 105, 75, 8>>
MARGIN == <<27, 105, 100, 14, 0>>
COMPRESSION_MODE == <<77, 2>>
RASTER_MARKER == <<71>>
END_PAGE_lower == <<122>>
END_PAGE == <<90>>
FORM_FEED == <<12>>
END_JOB_feed == <<12>>
END_JOB == <<26>>
READ_SIZE == 32

\* ------------------------------------------------------------- input sets
\* A reply of the transport: n bytes, with the two error bytes, the media
\* width byte and one value for every other byte.
Reply(n, e1, e2, mw, fill) ==
    [k \in 1..n |-> IF k = INFO_OFFSETS.error_1 + 1 THEN e1
                    ELSE IF k = INFO_OFFSETS.error_2 + 1 THEN e2
                    ELSE IF k = INFO_OFFSETS.media_width + 1 THEN mw
                    ELSE fill]

ReadLens == {0, 26, 27, 32}
MediaSamples == {0, 4, 24, 99}
Error1Samples == {0, 1}

Replies ==
    { Reply(n, e1, 0, mw, 0) : n \in ReadLens, e1 \in Error1Samples, mw \in MediaSamples }

\* raster lines handed to _raw_print: rows of nbytes bytes, all dots set or
\* no dot set
Rows(nbytes) == { Repeat(255, nbytes), Repeat(0, nbytes) }

RECURSIVE SeqsUpTo(_, _)
SeqsUpTo(S, n) ==
    IF n = 0 THEN {<<>>}
    ELSE LET shorter == SeqsUpTo(S, n - 1)
         IN  shorter \cup { Append(d, x) : d \in {e \in shorter : Len(e) = n - 1}, x \in S }

RowWidths == {3, 16, 17}

Documents == UNION { SeqsUpTo(Rows(w), MaxLines) : w \in RowWidths }

\* ceil(img.size[0] / 8) bytes per row; the image is printarea dots wide
RowBytes(tape_info) == (tape_info.printarea + 7) \div 8

\* the rows print_label cuts out of the rendered image
RenderedDocuments(tape_info) ==
    IF tape_info.printarea = None
    THEN Documents
    ELSE SeqsUpTo(Rows(RowBytes(tape_info)), MaxLines)

NoData == <<None>>
NoStatus == [none |-> TRUE]
NoRet == [none |-> TRUE]

\* ------------------------------------------------------------ the machine
Init ==
    /\ pc = "idle"
    /\ api = "none"
    /\ fn = "none"
    /\ log = <<>>
    /\ data = NoData
    /\ status = NoStatus
    /\ count = 0
    /\ document = <<>>
    /\ i = 0
    /\ li = 0
    /\ err = "none"
    /\ args = <<>>
    /\ ret = NoRet

\* the page a transport operation belongs to (None outside the page loop)
CurPage == IF pc \in {"reset_invalidate", "reset_initialize", "gs_request", "gs_read",
                      "end_debug1", "end_job", "end_debug2"}
           THEN None ELSE i

\* raise exc: the exception leaves the API call
Raise(exc) == /\ pc' = "raised"
              /\ err' = exc

Write_swallow(bytes, next) ==
    \E ok \in BOOLEAN :
        /\ log' = Append(log, [op |-> IF ok THEN "w" ELSE "wfail", page |-> CurPage,
                               bytes |-> bytes])
        /\ pc' = next
        /\ err' = err

\* self.backend.write(bytes), then continue at next; the transport may fail
Write(bytes, next) ==
    \E ok \in BOOLEAN :
        IF ok
        THEN /\ log' = Append(log, [op |-> "w", page |-> CurPage, bytes |-> bytes])
             /\ pc' = next
             /\ err' = err
        ELSE /\ log' = Append(log, [op |-> "wfail", page |-> CurPage, bytes |-> bytes])
             /\ Raise("IOError")

\* P700.get_status, P700.print_label, P700._raw_print are called
Call_get_status ==
    /\ pc = "idle"
    /\ api' = "get_status"
    /\ fn' = "get_status"
    /\ pc' = "reset_invalidate"
    /\ UNCHANGED <<log, data, status, count, document, i, li, err, args, ret>>

Call_print_label ==
    /\ pc = "idle"
    /\ api' = "print_label"
    /\ fn' = "get_status"
    /\ pc' = "reset_invalidate"
    /\ UNCHANGED <<log, data, status, count, document, i, li, err, args, ret>>

Call_raw_print ==
    /\ pc = "idle"
    /\ \E msg \in {r \in Replies : Len(r) = READ_SIZE /\ Status_raises(r) = "none"},
          doc \in Documents, c \in 0..MaxCount :
            /\ status' = Status(msg)
            /\ document' = doc
            /\ count' = c
    /\ api' = "_raw_print"
    /\ fn' = "_raw_print"
    /\ pc' = "reset_invalidate"
    /\ UNCHANGED <<log, data, i, li, err, args, ret>>

\* for i in range(0, count): the page that starts when page k is reached
LoopPc(k) == IF k < count THEN "pg_dynamic_mode" ELSE "end_debug1"
LoopI(k) == IF k < count THEN k ELSE i

\* P700.reset
reset_invalidate ==
    /\ pc = "reset_invalidate"
    /\ Write(INVALIDATE, "reset_initialize")
    /\ UNCHANGED <<api, fn, data, status, count, document, i, li, args, ret>>

reset_initialize ==
    /\ pc = "reset_initialize"
    /\ Write(INITIALIZE, IF fn = "get_status" THEN "gs_request" ELSE LoopPc(0))
    /\ i' = IF fn = "get_status" \/ pc' = "raised" THEN i ELSE LoopI(0)
    /\ UNCHANGED <<api, fn, data, status, count, document, li, args, ret>>

\* P700.get_status: the checks on the reply
NoResponse(d) == Len(d) = 0

TooShort_lenient(d) == Len(d) < 27

TooShort(d) == Len(d) < READ_SIZE

gs_request ==
    /\ pc = "gs_request"
    /\ Write(STATUS_REQUEST, "gs_read")
    /\ UNCHANGED <<api, fn, data, status, count, document, i, li, args, ret>>

gs_read ==
    /\ pc = "gs_read"
    /\ \E reply \in Replies :
        /\ data' = reply
        /\ log' = Append(log, [op |-> "r", page |-> CurPage, n |-> READ_SIZE])
        /\ IF NoResponse(reply) \/ TooShort(reply)
           THEN /\ Raise("IOError")
                /\ UNCHANGED <<status, ret>>
           ELSE IF Status_raises(reply) # "none"
           THEN /\ Raise(Status_raises(reply))
                /\ UNCHANGED <<status, ret>>
           ELSE /\ status' = Status(reply)
                /\ err' = err
                /\ IF api = "get_status"
                   THEN pc' = "done" /\ ret' = Status(reply)
                   ELSE pc' = "pl_ready" /\ ret' = ret
    /\ UNCHANGED <<api, fn, count, document, i, li, args>>

\* P700.print_label after get_status returned
pl_ready ==
    /\ pc = "pl_ready"
    /\ IF ~ Status_ready(status)
       THEN Raise("IOError")
       ELSE pc' = "pl_render" /\ err' = err
    /\ UNCHANGED <<api, fn, log, data, status, count, document, i, li, args, ret>>

\* label.render(height=printarea), the mode check, and the rows of the
\* rotated image; _raw_print is entered with count = 1
pl_render ==
    /\ pc = "pl_render"
    /\ \E mode1 \in BOOLEAN, doc \in RenderedDocuments(status.tape_info) :
        IF ~ mode1
        THEN /\ Raise("ValueError")
             /\ UNCHANGED <<fn, document, count>>
        ELSE /\ document' = doc
             /\ count' = 1
             /\ fn' = "_raw_print"
             /\ pc' = "reset_invalidate"
             /\ err' = err
    /\ UNCHANGED <<api, log, data, status, i, li, args, ret>>

\* P700._debug_status, then continue at next
DebugStatus(next) ==
    \E reply \in Replies :
        /\ data' = reply
        /\ log' = Append(log, [op |-> "r", page |-> CurPage, n |-> READ_SIZE])
        /\ IF Len(reply) # 0 /\ Status_raises(reply) # "none"
           THEN Raise(Status_raises(reply))
           ELSE pc' = next /\ err' = err

\* the if i == 0 around the second print information command
SecondPrintInfo_every(page) == page >= 0

SecondPrintInfo(page) == page = 0

\* the if i < count - 1 around the form feed
MoreCopies_all(page, c) == page <= c - 1

MoreCopies(page, c) == page < c - 1

\* P700._raw_print, one page
pg_dynamic_mode ==
    /\ pc = "pg_dynamic_mode"
    /\ Write(DYNAMIC_MODE, "pg_debug1")
    /\ UNCHANGED <<api, fn, data, status, count, document, i, li, args, ret>>

pg_debug1 ==
    /\ pc = "pg_debug1"
    /\ DebugStatus("pg_print_info")
    /\ UNCHANGED <<api, fn, status, count, document, i, li, args, ret>>

pg_print_info ==
    /\ pc = "pg_print_info"
    /\ Write(PRINT_INFO, IF SecondPrintInfo(i) THEN "pg_print_info_again" ELSE "pg_various_mode")
    /\ UNCHANGED <<api, fn, data, status, count, document, i, li, args, ret>>

pg_print_info_again ==
    /\ pc = "pg_print_info_again"
    /\ Write(PRINT_INFO, "pg_various_mode")
    /\ UNCHANGED <<api, fn, data, status, count, document, i, li, args, ret>>

pg_various_mode ==
    /\ pc = "pg_various_mode"
    /\ Write(VARIOUS_MODE, "pg_debug2")
    /\ UNCHANGED <<api, fn, data, status, count, document, i, li, args, ret>>

pg_debug2 ==
    /\ pc = "pg_debug2"
    /\ DebugStatus("pg_cut_every")
    /\ UNCHANGED <<api, fn, status, count, document, i, li, args, ret>>

pg_cut_every ==
    /\ pc = "pg_cut_every"
    /\ Write(CUT_EVERY, "pg_advanced_mode")
    /\ UNCHANGED <<api, fn, data, status, count, document, i, li, args, ret>>

pg_advanced_mode ==
    /\ pc = "pg_advanced_mode"
    /\ Write(ADVANCED_MODE, "pg_debug3")
    /\ UNCHANGED <<api, fn, data, status, count, document, i, li, args, ret>>

pg_debug3 ==
    /\ pc = "pg_debug3"
    /\ DebugStatus("pg_margin")
    /\ UNCHANGED <<api, fn, status, count, document, i, li, args, ret>>

pg_margin ==
    /\ pc = "pg_margin"
    /\ Write(MARGIN, "pg_debug4")
    /\ UNCHANGED <<api, fn, data, status, count, document, i, li, args, ret>>

pg_debug4 ==
    /\ pc = "pg_debug4"
    /\ DebugStatus("pg_compression_mode")
    /\ UNCHANGED <<api, fn, status, count, document, i, li, args, ret>>

pg_compression_mode ==
    /\ pc = "pg_compression_mode"
    /\ Write(COMPRESSION_MODE, "pg_debug5")
    /\ UNCHANGED <<api, fn, data, status, count, document, i, li, args, ret>>

\* the last poll of the page, then for line in document starts
pg_debug5 ==
    /\ pc = "pg_debug5"
    /\ DebugStatus(IF document = <<>> THEN "pg_end_page" ELSE "pg_raster_line")
    /\ li' = IF pc' = "raised" THEN li ELSE 1
    /\ UNCHANGED <<api, fn, status, count, document, i, args, ret>>

\* for line in document: a line is left after line k
MoreLines_skip(k, doc) == k + 1 < Len(doc)

MoreLines(k, doc) == k < Len(doc)

pg_raster_line ==
    /\ pc = "pg_raster_line"
    /\ IF encode_line_raises(document[li], status.tape_info) # "none"
       THEN /\ Raise(encode_line_raises(document[li], status.tape_info))
            /\ UNCHANGED <<log, li>>
       ELSE /\ Write(RASTER_MARKER \o encode_line(document[li], status.tape_info),
                     IF MoreLines(li, document) THEN "pg_raster_line" ELSE "pg_end_page")
            /\ li' = IF pc' = "raised" THEN li ELSE li + 1
    /\ UNCHANGED <<api, fn, data, status, count, document, i, args, ret>>

pg_end_page ==
    /\ pc = "pg_end_page"
    /\ Write(END_PAGE, IF MoreCopies(i, count) THEN "pg_form_feed" ELSE LoopPc(i + 1))
    /\ i' = IF pc' = "raised" \/ MoreCopies(i, count) THEN i ELSE LoopI(i + 1)
    /\ UNCHANGED <<api, fn, data, status, count, document, li, args, ret>>

pg_form_feed ==
    /\ pc = "pg_form_feed"
    /\ Write(FORM_FEED, LoopPc(i + 1))
    /\ i' = IF pc' = "raised" THEN i ELSE LoopI(i + 1)
    /\ UNCHANGED <<api, fn, data, status, count, document, li, args, ret>>

\* P700._raw_print after the page loop
end_debug1 ==
    /\ pc = "end_debug1"
    /\ DebugStatus("end_job")
    /\ UNCHANGED <<api, fn, status, count, document, i, li, args, ret>>

end_job ==
    /\ pc = "end_job"
    /\ Write(END_JOB, "end_debug2")
    /\ UNCHANGED <<api, fn, data, status, count, document, i, li, args, ret>>

end_debug2 ==
    /\ pc = "end_debug2"
    /\ DebugStatus("done")
    /\ UNCHANGED <<api, fn, status, count, document, i, li, args, ret>>

Next ==
    \/ Call_get_status \/ Call_print_label \/ Call_raw_print
    \/ reset_invalidate \/ reset_initialize
    \/ gs_request \/ gs_read
    \/ pl_ready \/ pl_render
    \/ pg_dynamic_mode \/ pg_debug1 \/ pg_print_info \/ pg_print_info_again
    \/ pg_various_mode \/ pg_debug2 \/ pg_cut_every \/ pg_advanced_mode
    \/ pg_debug3 \/ pg_margin \/ pg_debug4 \/ pg_compression_mode \/ pg_debug5
    \/ pg_raster_line \/ pg_end_page \/ pg_form_feed
    \/ end_debug1 \/ end_job \/ end_debug2

Spec == Init /\ [][Next]_vars

\* ------------------------------------------- the decoder called on its own
\* Errors(byte1, byte2) for every pair of bytes; Status(msg) and ready() for
\* 32 byte replies covering every media width byte and every low error byte.
E2Samples == {0, 1, 2, 16, 32, 255}

\* replies whose bytes all differ from their neighbours, for each media width
RampReply(mw, s) ==
    [k \in 1..READ_SIZE |-> IF k = INFO_OFFSETS.media_width + 1 THEN mw
                            ELSE (s + 7 * k) % 256]

RampReplies == { RampReply(mw, s) : mw \in {0, 4, 6, 9, 12, 18, 24, 99}, s \in 0..7 }

DecodeMessages ==
    { Reply(READ_SIZE, e1, e2, mw, 0) : e1 \in Byte, e2 \in E2Samples, mw \in {0, 24, 99} }
    \cup RampReplies
    \cup { Reply(READ_SIZE, e1, 0, mw, fill) : e1 \in {0, 1}, mw \in Byte, fill \in {0, 255} }

InitDecode ==
    /\ \/ api = "Errors" /\ pc = "call_Errors" /\ args \in Byte \X Byte
       \/ api = "Status" /\ pc = "call_Status" /\ args \in { <<m>> : m \in DecodeMessages }
    /\ fn = "none"
    /\ log = <<>>
    /\ data = NoData
    /\ status = NoStatus
    /\ count = 0
    /\ document = <<>>
    /\ i = 0
    /\ li = 0
    /\ err = "none"
    /\ ret = NoRet

Call_Errors ==
    /\ pc = "call_Errors"
    /\ ret' = [value |-> Errors(args[1], args[2])]
    /\ pc' = "done"
    /\ UNCHANGED <<api, fn, log, data, status, count, document, i, li, err, args>>

Call_Status ==
    /\ pc = "call_Status"
    /\ IF Status_raises(args[1]) # "none"
       THEN /\ Raise(Status_raises(args[1]))
            /\ UNCHANGED status
       ELSE /\ status' = Status(args[1])
            /\ pc' = "call_ready"
            /\ err' = err
    /\ UNCHANGED <<api, fn, log, data, count, document, i, li, args, ret>>

Call_ready ==
    /\ pc = "call_ready"
    /\ ret' = [value |-> Status_ready(status)]
    /\ pc' = "done"
    /\ UNCHANGED <<api, fn, log, data, status, count, document, i, li, err, args>>

NextDecode == Call_Errors \/ Call_Status \/ Call_ready

SpecDecode == InitDecode /\ [][NextDecode]_vars

\* ------------------------------------------------ vocabulary of the claims
HasStatus == "errors" \in DOMAIN status

\* the successful writes, and those of page p, as byte sequences in order
IsWrite(e) == e.op = "w"
Writes == SelectSeq(log, IsWrite)

PageWrites(p) ==
    LET OnPage(e) == e.op = "w" /\ e.page = p
        ws == SelectSeq(log, OnPage)
    IN  [k \in 1..Len(ws) |-> ws[k].bytes]

LastOpIsRead == log # <<>> /\ log[Len(log)].op = "r"

IsRasterLine(bytes) == bytes # <<>> /\ bytes[1] = 71

PrintInfoBytes == <<27, 105, 122, 134, 1, 12, 0, 0, 0, 0, 0, 0>>

\* the page has gone past its print information step
PastPrintInfo(ws) == \E k \in 2..Len(ws) : ws[k] # PrintInfoBytes

\* C1: on every page that has gone past its print information step the print
\* information command has been written exactly twice, in two consecutive
\* writes, if it is page 0 and exactly once otherwise; no page ever holds
\* more of them, and all of them precede every raster line of the page.
C1_PrintInfoTwiceOnFirstPage ==
    fn = "_raw_print" =>
        \A p \in 0..(count - 1) :
            LET ws == PageWrites(p)
                infos == {k \in 1..Len(ws) : ws[k] = PrintInfoBytes}
                lines == {k \in 1..Len(ws) : IsRasterLine(ws[k])}
                due == IF p = 0 THEN 2 ELSE 1
            IN  /\ Cardinality(infos) <= due
                /\ PastPrintInfo(ws) => Cardinality(infos) = due
                /\ \A a, b \in infos : a < b => b = a + 1
                /\ \A a \in infos, b \in lines : a < b

C1_Witness ==
    /\ pc = "done" /\ count = 2 /\ Len(document) >= 1
    /\ \E k \in 1..Len(PageWrites(0)) : IsRasterLine(PageWrites(0)[k])
    /\ \E k \in 1..Len(PageWrites(1)) : IsRasterLine(PageWrites(1)[k])

\* C2: a form feed write (0C) is the last write of a page that is not the
\* last one and is directly followed by the first write of the next page;
\* every finished page but the last has exactly one, the last page has none
\* and a job of one copy has none at all.
FormFeedBytes == <<12>>

C2_FormFeedBetweenPages ==
    fn = "_raw_print" =>
        /\ \A k \in 1..Len(Writes) :
            Writes[k].bytes = FormFeedBytes =>
                /\ Writes[k].page # None
                /\ Writes[k].page < count - 1
                /\ k > 1 /\ Writes[k - 1].page = Writes[k].page
                /\ \E j \in 1..(k - 1) : Writes[j].page = Writes[k].page
                                         /\ Writes[j].bytes = <<77, 2>>
                /\ k < Len(Writes) => Writes[k + 1].page = Writes[k].page + 1
        /\ \A p \in 0..(count - 1) :
            LET ffs == {k \in 1..Len(PageWrites(p)) : PageWrites(p)[k] = FormFeedBytes}
            IN  /\ Cardinality(ffs) <= 1
                /\ (p < count - 1 /\ PageWrites(p + 1) # <<>>) => Cardinality(ffs) = 1
                /\ p = count - 1 => ffs = {}
        /\ count <= 1 => \A k \in 1..Len(Writes) : Writes[k].bytes # FormFeedBytes
        /\ pc = "done" =>
            Cardinality({k \in 1..Len(Writes) : Writes[k].bytes = FormFeedBytes})
                = (IF count >= 1 THEN count - 1 ELSE 0)

C2_Witness ==
    /\ pc = "done" /\ count = 2 /\ Len(document) >= 1
    /\ \E k \in 1..Len(Writes) : Writes[k].bytes = FormFeedBytes /\ Writes[k].page = 0

\* C3: the writes of every page start with dynamic mode, print information
\* (twice on page 0), various mode, cut every page, advanced mode, margin,
\* compression mode, in this order, and none of these commands is written
\* again later in the page; so every raster line follows compression mode.
PageCommands(p) ==
    <<  <<27, 105, 97, 1>> >> \o
    (IF p = 0 THEN << PrintInfoBytes, PrintInfoBytes >> ELSE << PrintInfoBytes >>) \o
    <<  <<27, 105, 77, 64>>, <<27, 105, 65, 1>>, <<27, 105, 75, 8>>,
        <<27, 105, 100, 14, 0>>, <<77, 2>> >>

C3_PageCommandOrder ==
    fn = "_raw_print" =>
        \A p \in 0..(count - 1) :
            LET ws == PageWrites(p)
                cmds == PageCommands(p)
            IN  \A k \in 1..Len(ws) :
                    IF k <= Len(cmds)
                    THEN ws[k] = cmds[k]
                    ELSE \A c \in 1..Len(cmds) : ws[k] # cmds[c]

C3_Witness ==
    /\ pc = "done" /\ count = 2 /\ Len(document) = 2
    /\ Len(PageWrites(0)) = 8 + 2 + 2
    /\ Len(PageWrites(1)) = 7 + 2 + 1

\* the three writes get_status issues before its read
StatusRequestWrites ==
    << Repeat(0, 100), <<27, 64>>, <<27, 105, 83>> >>

WrittenBytes == [k \in 1..Len(Writes) |-> Writes[k].bytes]

AnyErrorFlag(st) == \E name \in DOMAIN st.errors : st.errors[name]

\* C4: when print_label has decoded a status with an error flag set, the
\* call is at its readiness check or has failed with an error, and the only
\* writes of the call are the reset and the single status request.
C4_NotReadyWritesNothing ==
    (api = "print_label" /\ HasStatus /\ AnyErrorFlag(status)) =>
        /\ pc \in {"pl_ready", "raised"}
        /\ pc = "raised" => err = "IOError"
        /\ WrittenBytes = StatusRequestWrites
        /\ \A k \in 1..Len(log) : log[k].op # "wfail"

C4_Witness ==
    /\ api = "print_label" /\ pc = "raised" /\ err = "IOError"
    /\ HasStatus /\ status.errors.no_media
    /\ WrittenBytes = StatusRequestWrites

\* C5 (as claimed): when print_label has decoded a status without error flag
\* whose tape_info is the unknown sentinel, no page command and no raster
\* line is written and the call does not complete.
C5_UnknownMediaRefused ==
    (api = "print_label" /\ HasStatus /\ ~ AnyErrorFlag(status)
        /\ status.tape_info = [lmargin |-> None, printarea |-> None,
                               rmargin |-> None, width |-> None]) =>
        /\ \A k \in 1..Len(Writes) : Writes[k].page = None
        /\ pc # "done"

\* C6 (as claimed): Status(msg) is constructed for every media width byte,
\* and a width outside the table gives the unknown sentinel as tape_info.
C6_UnknownWidthDecodes ==
    (api = "Status" /\ pc # "call_Status") =>
        /\ pc # "raised"
        /\ HasStatus
        /\ args[1][11] \notin {0, 4, 6, 9, 12, 18, 24} =>
              status.tape_info = [lmargin |-> None, printarea |-> None,
                                  rmargin |-> None, width |-> None]

\* C7: once get_status has read, the transport has seen exactly the reset,
\* the status request and the read, in this order; fewer than 32 bytes make
\* the call fail with IOError without a Status, and a Status is returned
\* only from a read of at least 32 bytes.
C7_GetStatusShortRead ==
    (fn = "get_status" /\ LastOpIsRead) =>
        /\ WrittenBytes = StatusRequestWrites
        /\ Len(log) = 4
        /\ \A k \in 1..3 : log[k].op = "w"
        /\ Len(data) < 32 => (pc = "raised" /\ err = "IOError" /\ ~ HasStatus
                              /\ "none" \in DOMAIN ret)
        /\ (HasStatus \/ "none" \notin DOMAIN ret) => Len(data) >= 32
        /\ (api = "get_status" /\ pc = "done") =>
              ("none" \notin DOMAIN ret /\ ret.data.media_width = data[11])

C7_Witness ==
    /\ api = "get_status" /\ pc = "raised" /\ err = "IOError"
    /\ LastOpIsRead /\ Len(data) = 27
    /\ WrittenBytes = StatusRequestWrites

\* C8 (as claimed): once a read of a print job has returned fewer than 32
\* bytes, nothing more is written to the transport.
C8_ShortReadAborts ==
    [][ (api \in {"print_label", "_raw_print"} /\ LastOpIsRead /\ Len(data) < 32)
            => (Writes' = Writes) ]_vars

\* C9 (as claimed): for every 32 byte reply ready() returns, and returns
\* true exactly when none of the bits 0, 2, 3, 6, 8, 12, 13 of the error
\* field is set, whatever the media width byte.
NamedErrorBit(e1, e2) ==
    \/ e1 % 2 = 1 \/ (e1 \div 4) % 2 = 1 \/ (e1 \div 8) % 2 = 1 \/ (e1 \div 64) % 2 = 1
    \/ e2 % 2 = 1 \/ (e2 \div 16) % 2 = 1 \/ (e2 \div 32) % 2 = 1

C9_ReadyIffNoErrorBit ==
    (api = "Status" /\ pc \notin {"call_Status", "call_ready"}) =>
        /\ pc = "done"
        /\ ret.value = ~ NamedErrorBit(args[1][9], args[1][10])

\* C10: Errors(byte1, byte2) has exactly the seven named flags, each set
\* exactly when its bit of byte1 | byte2 << 8 is set (bits 0, 2, 3, 6 of
\* byte1 and bits 0, 4, 5 of byte2); no other bit changes a flag.
C10_ErrorFlagsFollowBits ==
    (api = "Errors" /\ pc # "call_Errors") =>
        LET b1 == args[1]
            b2 == args[2]
            e == ret.value
        IN  /\ pc = "done"
            /\ DOMAIN e = {"no_media", "cutter_jam", "weak_battery", "hv_adapter",
                           "replace_media", "cover_open", "overheating"}
            /\ e.no_media = (b1 % 2 = 1)
            /\ e.cutter_jam = ((b1 \div 4) % 2 = 1)
            /\ e.weak_battery = ((b1 \div 8) % 2 = 1)
            /\ e.hv_adapter = ((b1 \div 64) % 2 = 1)
            /\ e.replace_media = (b2 % 2 = 1)
            /\ e.cover_open = ((b2 \div 16) % 2 = 1)
            /\ e.overheating = ((b2 \div 32) % 2 = 1)

\* every unknown bit set (1, 4, 5, 7, 9, 10, 11, 14, 15) and no flag raised
C10_Witness ==
    /\ api = "Errors" /\ pc = "done"
    /\ args = <<178, 206>>
    /\ \A name \in DOMAIN ret.value : ~ ret.value[name]

\* C11: for every 32 byte reply whose media width byte has a table entry,
\* Status is built, each field is the byte at its offset (0, 4, 8, 9, 10,
\* 11, 15, 17, 18, 19, 20, 21, 22, 26), the error flags are the bits of
\* bytes 8 and 9, and tape_info is the table entry of byte 10; byte 10 = 24
\* gives media_width 24 and tape_info (0, 128, 0, 24.0).  No other byte
\* enters a decoded field.
KnownTape(code) ==
    CASE code = 0 -> [lmargin |-> None, printarea |-> None, rmargin |-> None, width |-> None]
      [] code = 4 -> [lmargin |-> 52, printarea |-> 24, rmargin |-> 52, width |-> 35]
      [] code = 6 -> [lmargin |-> 48, printarea |-> 32, rmargin |-> 48, width |-> 60]
      [] code = 9 -> [lmargin |-> 39, printarea |-> 50, rmargin |-> 39, width |-> 90]
      [] code = 12 -> [lmargin |-> 29, printarea |-> 70, rmargin |-> 29, width |-> 120]
      [] code = 18 -> [lmargin |-> 8, printarea |-> 112, rmargin |-> 8, width |-> 180]
      [] code = 24 -> [lmargin |-> 0, printarea |-> 128, rmargin |-> 0, width |-> 240]

EncodeTapes == { MEDIA_WIDTH_INFO[c] : c \in DOMAIN MEDIA_WIDTH_INFO }

EncodeLines ==
    UNION { { Repeat(255, n), Repeat(0, n),
              [k \in 1..n |-> IF k = 1 THEN 128 ELSE IF k = n THEN 1 ELSE 0],
              [k \in 1..n |-> IF k % 2 = 1 THEN 170 ELSE 85],
              [k \in 1..n |-> IF k = 1 THEN 0 ELSE 255] } : n \in 0..MaxLineBytes }

\* img.tobytes() of a mode "1" image printarea dots wide: each row is packed
\* most significant bit first and padded with zero bits to a whole byte
PackRow(dots) ==
    LET nbytes == (Len(dots) + 7) \div 8
        dot(k) == IF k <= Len(dots) THEN dots[k] ELSE 0
    IN  [b \in 1..nbytes |->
            dot(8*b - 7) * 128 + dot(8*b - 6) * 64 + dot(8*b - 5) * 32 +
            dot(8*b - 4) * 16 + dot(8*b - 3) * 8 + dot(8*b - 2) * 4 +
            dot(8*b - 1) * 2 + dot(8*b)]

LabelRows(tape_info) ==
    LET w == tape_info.printarea
    IN  { PackRow(Repeat(1, w)), PackRow(Repeat(0, w)),
          PackRow([k \in 1..w |-> IF k = 1 THEN 1 ELSE 0]),
          PackRow([k \in 1..w |-> IF k = w THEN 1 ELSE 0]),
          PackRow([k \in 1..w |-> k % 2]) }

EncodeArgs ==
    (EncodeLines \X EncodeTapes)
    \cup UNION { { <<row, t>> : row \in LabelRows(t) } :
                 t \in { e \in EncodeTapes : e.printarea # None } }

CodecInputs ==
    UNION { { Repeat(0, n), Repeat(255, n),
              [k \in 1..n |-> k % 256],
              [k \in 1..n |-> (k \div 2) % 256],
              [k \in 1..n |-> IF k % 5 < 3 THEN 7 ELSE k % 256],
              [k \in 1..n |-> IF 3 * k < n THEN k % 256 ELSE 9] } : n \in 0..MaxCodecLen }
    \cup { encode_line_padded(a[1], a[2]) :
             a \in { e \in EncodeArgs : encode_line_raises(e[1], e[2]) = "none" } }

InitEncode ==
    /\ \/ api = "encode_line" /\ pc = "call_encode_line" /\ args \in EncodeArgs
       \/ api = "packbits" /\ pc = "call_packbits_encode" /\ args \in { <<x>> : x \in CodecInputs }
    /\ fn = "none"
    /\ log = <<>>
    /\ data = NoData
    /\ status = NoStatus
    /\ count = 0
    /\ document = <<>>
    /\ i = 0
    /\ li = 0
    /\ err = "none"
    /\ ret = NoRet

Call_encode_line ==
    /\ pc = "call_encode_line"
    /\ IF encode_line_raises(args[1], args[2]) # "none"
       THEN /\ Raise(encode_line_raises(args[1], args[2]))
            /\ ret' = ret
       ELSE /\ ret' = [ padded |-> encode_line_padded(args[1], args[2]),
                        chunk |-> encode_line(args[1], args[2]) ]
            /\ pc' = "done"
            /\ err' = err
    /\ UNCHANGED <<api, fn, log, data, status, count, document, i, li, args>>

\* packbits.encode(data): the two short cases and the loop variables
Call_packbits_encode ==
    /\ pc = "call_packbits_encode"
    /\ IF Len(args[1]) <= 1
       THEN /\ ret' = [compressed |-> packbits_encode(args[1]), pos |-> 1, decoded |-> <<>>]
            /\ pc' = "packbits_decode"
       ELSE /\ ret' = [st |-> [state |-> "RAW", repeat_count |-> 0,
                               buf |-> <<>>, result |-> <<>>], pos |-> 1]
            /\ pc' = "packbits_encode"
    /\ UNCHANGED <<api, fn, log, data, status, count, document, i, li, err, args>>

\* one pass of the while loop of packbits.encode per step, then the final run
packbits_encode_loop ==
    /\ pc = "packbits_encode"
    /\ IF ret.pos < Len(args[1])
       THEN /\ ret' = [st |-> PB_step(args[1], ret.st, ret.pos), pos |-> ret.pos + 1]
            /\ pc' = pc
       ELSE /\ ret' = [compressed |-> PB_finish(args[1], ret.st), pos |-> 1, decoded |-> <<>>]
            /\ pc' = "packbits_decode"
    /\ UNCHANGED <<api, fn, log, data, status, count, document, i, li, err, args>>

\* packbits.decode(compressed), one pass of its while loop per step
packbits_decode ==
    /\ pc = "packbits_decode"
    /\ IF ret.pos <= Len(ret.compressed)
       THEN LET nxt == PB_decode_step(ret.compressed, ret.pos, ret.decoded)
            IN  /\ ret' = [ret EXCEPT !.pos = nxt.pos, !.decoded = nxt.result]
                /\ pc' = pc
       ELSE /\ pc' = "done"
            /\ ret' = ret
    /\ UNCHANGED <<api, fn, log, data, status, count, document, i, li, err, args>>

NextEncode ==
    Call_encode_line \/ Call_packbits_encode \/ packbits_encode_loop \/ packbits_decode

SpecEncode == InitEncode /\ [][NextEncode]_vars

\* bit j (0 is the least significant) of a big-endian byte string
BitOf(bytes, j) ==
    IF j < 8 * Len(bytes)
    THEN (bytes[Len(bytes) - (j \div 8)] \div (2 ^ (j % 8))) % 2
    ELSE 0

C13_WideLineFailsFast ==
    (api = "encode_line" /\ pc # "call_encode_line") =>
        /\ 8 * Len(args[1]) > 128 => (pc = "raised" /\ "none" \in DOMAIN ret)
        /\ pc = "done" =>
             \A m \in 0..(8 * Len(args[1]) - 1) :
                 BitOf(args[1], m) = 1 =>
                     (m + args[2].rmargin <= 127
                      /\ BitOf(ret.padded, m + args[2].rmargin) = 1)

\* C15: decoding what the run-length coder produced gives back the input,
\* for the empty sequence, runs of one byte, sequences without repeats,
\* mixtures, lengths above 128 and every 16 byte buffer of encode_line.
C15_CodecRoundTrip ==
    (api = "packbits" /\ pc = "done") => ret.decoded = args[1]

C15_Witness ==
    /\ api = "packbits" /\ pc = "done"
    /\ Len(args[1]) = 130 /\ \A k \in 1..130 : args[1][k] = 255
    /\ Len(ret.compressed) = 4
    /\ ret.decoded = args[1]

\* C20 (as claimed): for a known tape and a row of printarea dots packed as
\* print_label packs it, the 16 byte buffer has its lowest rmargin bits and
\* its highest lmargin bits clear.
C20_MarginsBlank ==
    (api = "encode_line" /\ pc # "call_encode_line"
        /\ args[2].printarea # None /\ args[1] \in LabelRows(args[2])) =>
        /\ pc = "done"
        /\ \A j \in 0..127 :
             (j < args[2].rmargin \/ j > 127 - args[2].lmargin)
                 => BitOf(ret.padded, j) = 0

\* C14: a failed transport write is the last thing the call does to the
\* transport: the call has ended with IOError, the write is not repeated and
\* nothing is written or read after it.
C14_WriteFailureAborts ==
    \A k \in 1..Len(log) :
        log[k].op = "wfail" =>
            /\ k = Len(log)
            /\ pc = "raised"
            /\ err = "IOError"

C14_Witness ==
    /\ api = "_raw_print" /\ pc = "raised" /\ err = "IOError"
    /\ log # <<>> /\ log[Len(log)].op = "wfail"
    /\ log[Len(log)].page = 1 /\ log[Len(log)].bytes[1] = 71

\* C16: the writes of _raw_print start with 100 zero bytes and then 1B 40,
\* and wherever 1B 40 is written the write before it is the 100 zero bytes.
RawPrintWrites ==
    LET skip == IF api = "print_label" THEN 3 ELSE 0
    IN  [k \in 1..(Len(Writes) - skip) |-> Writes[k + skip].bytes]

C16_JobStartsWithReset ==
    /\ fn = "_raw_print" =>
        /\ Len(RawPrintWrites) >= 1 => RawPrintWrites[1] = Repeat(0, 100)
        /\ Len(RawPrintWrites) >= 2 => RawPrintWrites[2] = <<27, 64>>
    /\ \A k \in 1..Len(Writes) :
        Writes[k].bytes = <<27, 64>> => (k > 1 /\ Writes[k - 1].bytes = Repeat(0, 100))
    /\ \A k \in 1..Len(log) :
        (log[k].op = "w" /\ log[k].bytes = <<27, 64>>) =>
            (k > 1 /\ log[k - 1].op = "w" /\ log[k - 1].bytes = Repeat(0, 100))

C16_Witness ==
    /\ api = "print_label" /\ fn = "_raw_print" /\ pc = "done"
    /\ Len(RawPrintWrites) > 2
    /\ RawPrintWrites[3] = <<27, 105, 97, 1>>

\* C17: the raster line writes of a page are 47 followed by the chunk of
\* encode_line for the lines of the document, in document order and with the
\* tape_info of the job's status; a page that has written its end of page
\* marker has written one raster line for every line of the document.
PageRasterLines(p) == SelectSeq(PageWrites(p), IsRasterLine)

C18_EndOfJobOnceAndLast ==
    /\ \A k \in 1..Len(Writes) :
        Writes[k].bytes = <<26>> =>
            /\ k = Len(Writes)
            /\ Writes[k].page = None
            /\ \A j \in 1..(k - 1) : Writes[j].bytes # <<26>>
    /\ (pc = "done" /\ fn = "_raw_print") =>
        /\ Writes # <<>>
        /\ Writes[Len(Writes)].bytes = <<26>>
        /\ log[Len(log) - 1].op = "w" /\ log[Len(log) - 1].bytes = <<26>>
        /\ \A p \in 0..(count - 1) : PageWrites(p) # <<>>

C18_Witness ==
    /\ pc = "done" /\ fn = "_raw_print" /\ count = 2 /\ Len(document) = 1
    /\ Writes[Len(Writes)].bytes = <<26>>
    /\ Writes[Len(Writes) - 1].bytes = <<90>>

\* the byte sequences listed as the wire protocol
ListedSequence(b) ==
    \/ b \in { Repeat(0, 100), <<27, 64>>, <<27, 105, 83>>, <<27, 105, 97, 1>>,
               PrintInfoBytes, <<27, 105, 77, 64>>, <<27, 105, 65, 1>>,
               <<27, 105, 75, 8>>, <<27, 105, 100, 14, 0>>, <<77, 2>>,
               <<12>>, <<26>> }
    \/ (Len(b) >= 3 /\ b[1] = 71 /\ b[2] + 256 * b[3] = Len(b) - 3)

\* the writes of page p after its compression mode command that are not
\* raster lines
PageTail(p) ==
    LET ws == PageWrites(p)
        AfterLines(b) == ~ IsRasterLine(b)
    IN  IF Len(ws) <= Len(PageCommands(p)) THEN <<>>
        ELSE SelectSeq(SubSeq(ws, Len(PageCommands(p)) + 1, Len(ws)), AfterLines)

\* C19 (as claimed): every write of a print job is one of the listed byte
\* sequences, and what a page writes after its raster lines is at most the
\* form feed.
C19_OnlyListedSequences ==
    api \in {"print_label", "_raw_print"} =>
        /\ \A k \in 1..Len(Writes) : ListedSequence(Writes[k].bytes)
        /\ \A p \in 0..(count - 1) : PageTail(p) \in { <<>>, << <<12>> >> }

\* C19 (amended): every write of a print job is one of the listed byte
\* sequences or the end of page marker 5A; what a page writes after its
\* raster lines is 5A and then, when more copies remain, the form feed; no
\* raster line of the page follows the 5A.
C19_ListedOrEndOfPage ==
    api \in {"print_label", "_raw_print"} =>
        /\ \A k \in 1..Len(Writes) :
             ListedSequence(Writes[k].bytes) \/ Writes[k].bytes = <<90>>
        /\ \A k \in 1..Len(Writes) : Writes[k].bytes = <<90>> => Writes[k].page # None
        /\ \A p \in 0..(count - 1) :
             /\ PageTail(p) \in { <<>>, << <<90>> >>, << <<90>>, <<12>> >> }
             /\ \A k \in 1..Len(PageWrites(p)) :
                  PageWrites(p)[k] = <<90>> =>
                      \A j \in (k + 1)..Len(PageWrites(p)) : ~ IsRasterLine(PageWrites(p)[j])
             /\ (p < count - 1 /\ PageWrites(p + 1) # <<>>)
                  => PageTail(p) = << <<90>>, <<12>> >>
        /\ (pc = "done" /\ count >= 1) => PageTail(count - 1) = << <<90>> >>

C19_Witness ==
    /\ pc = "done" /\ fn = "_raw_print" /\ count = 2 /\ Len(document) = 2
    /\ PageTail(0) = << <<90>>, <<12>> >>
    /\ PageTail(1) = << <<90>> >>

====
